---- MODULE Spec2Model ----
(***************************************************************************)
(* Model of sage/rings/padics/padic_extension_generic.py:                  *)
(* pAdicExtensionGeneric, the common superclass of the extensions of Zp    *)
(* and Qp.  A descriptor is a record holding the attributes __init__ (and  *)
(* the concrete subclass) store; the methods of the class are operators    *)
(* over such records, and every method call is one action of the state     *)
(* machine.  The variable ring is the ring under observation as its        *)
(* attributes stand, and last is the call the caller holds the result of   *)
(* (calls are synchronous: the caller takes the result before the next     *)
(* call).  The factory makes rings unique per construction key, so the     *)
(* Python identity test "is" is equality of the whole record.              *)
(***************************************************************************)
EXTENDS Integers, Sequences, FiniteSets, TLC

VARIABLES ring, last

vars == <<ring, last>>

(***************************** bounds **************************************)
\* the prime p of the base rings
Prime == 2
\* precision of the base rings Zp/Qp: coefficients are known modulo p^BasePrec
BasePrec == 2
\* precision caps of the extensions range over 1..MaxPrec
MaxPrec == 2
\* height of the towers of extensions that are built
MaxHeight == 2

(************************** the inputs *************************************)
PrecTypes == {"capped-rel", "capped-abs", "floating-point", "fixed-mod"}

Implementations == {"NTL", "FLINT"}

Modes == {"series", "val-unit"}

\* the 4-tuples (variable name, unused, unramified name, ramified name)
NameTuples == {<<"w", "x", "u", "w">>}

\* the p-adic base rings (instances of pAdicBaseGeneric)
BaseRings == [kind : {"base"}, type : PrecTypes, field : BOOLEAN]

\* the ring the exact polynomials live over
ExactRing == [kind |-> "exact"]

\* a value that is no p-adic ring at all (an argument of __eq__ and of
\* _coerce_map_from_)
NotARing == [kind |-> "other"]

\* the exact defining polynomials handed to the factory (monic Eisenstein
\* polynomials, coefficient lists from the constant term up): x + p,
\* x^2 + p, and x^2 + p with p^BasePrec or p^(BasePrec + 1) added to the
\* constant term, a digit the base ring keeps under some precision models
\* and a digit no base ring keeps
ExactPolys ==
    { [coeffs |-> <<Prime, 1>>, base_ring |-> ExactRing],
      [coeffs |-> <<Prime, 0, 1>>, base_ring |-> ExactRing],
      [coeffs |-> <<Prime + Prime ^ BasePrec, 0, 1>>, base_ring |-> ExactRing],
      [coeffs |-> <<Prime + Prime ^ (BasePrec + 1), 0, 1>>, base_ring |-> ExactRing] }

\* print_mode arguments of fraction_field / integer_ring: None or a dict
EmptyDict == [k \in {} |-> ""]

NonePM == [none |-> TRUE, dict |-> EmptyDict]

DictPM(dict) == [none |-> FALSE, dict |-> dict]

Overrides ==
    {NonePM, DictPM(EmptyDict)}
        \cup {DictPM([mode |-> m]) : m \in Modes}
        \cup {DictPM([pos |-> b]) : b \in BOOLEAN}

\* values base_ring.random_element() is drawn from
RandomDraws == {0, 1}

(************************ collaborators ************************************)
IsExt(R) == R.kind = "ext"

IsBase(R) == R.kind = "base"

\* poly.degree(): the index of the highest non-zero coefficient
RECURSIVE poly_degree(_)
poly_degree(poly) ==
    IF poly.coeffs = <<>> THEN -1
    ELSE IF poly.coeffs[Len(poly.coeffs)] # 0 THEN Len(poly.coeffs) - 1
    ELSE poly_degree([poly EXCEPT !.coeffs = SubSeq(poly.coeffs, 1, Len(poly.coeffs) - 1)])

\* the precision model of R: that of the p-adic ring at the bottom
RECURSIVE precision_model(_)
precision_model(R) == IF IsBase(R) THEN R.type ELSE precision_model(R.base)

\* the precision models that keep BasePrec digits from the first non-zero one
RelativeTypes == {"capped-rel", "floating-point"}

\* the number of p-adic digits of the integer a that R keeps.  Under absolute
\* precision it is BasePrec.  Under relative precision a unit keeps BasePrec
\* digits and a multiple of p one digit more, as the coefficients printed in
\* the example of defining_polynomial() show for Zp(5,5): 1 + O(5^5),
\* 4*5 + ... + O(5^6), 3*5^2 + O(5^6), 5^3 + O(5^6), O(5^6).
digits_kept(a, R) ==
    IF precision_model(R) \in RelativeTypes /\ a % Prime = 0
    THEN BasePrec + 1
    ELSE BasePrec

\* the exact polynomial coerced into the polynomial ring over R: every
\* coefficient truncated to the precision R keeps of it
change_ring(poly, R) ==
    [coeffs |-> [i \in 1..Len(poly.coeffs) |->
                    poly.coeffs[i] % (Prime ^ digits_kept(poly.coeffs[i], R))],
     base_ring |-> R]

\* the values the printer gives the options a print_mode dict leaves out
PrintDefaults == [mode |-> "series", pos |-> TRUE]

\* the value of option k under the print options p: the one p holds, else
\* the default, else none
print_option(p, k) ==
    IF k \in DOMAIN p THEN <<p[k]>>
    ELSE IF k \in DOMAIN PrintDefaults THEN <<PrintDefaults[k]>>
    ELSE <<>>

\* pAdicPrinter.richcmp_modes(other, op_EQ): every print option has the
\* same value on both sides, an omitted one counting with its default
richcmp_modes(p1, p2) ==
    \A k \in DOMAIN p1 \cup DOMAIN p2 : print_option(p1, k) = print_option(p2, k)

\* pAdicPrinter.dict(): a fresh dictionary of the printer's settings
printer_dict(self) == [k \in DOMAIN self.printer |-> self.printer[k]]

precision_cap(self) == self.prec

variable_name(self) == self.names

base_ring(self) == self.base


(************************** construction ***********************************)
\* pAdicExtensionGeneric.__init__(self, poly, prec, print_mode, names,
\* element_class): the attributes it stores.  The names are folded into
\* print_mode (an assignment replaces a key the dict already holds) and
\* print_mode goes with every key it has to pAdicGeneric.__init__, which
\* makes the printer of it; the base ring R is the polynomial's coefficient
\* ring.
__init__(poly, prec, print_mode, names) ==
    LET R == poly.base_ring
        pm == [unram_name |-> names[3], ram_name |-> names[4],
               var_name |-> names[1]] @@ print_mode
    IN  [kind |-> "ext",
         given_poly |-> poly,
         base |-> R,
         prec |-> prec,
         printer |-> pm,
         names |-> names[1]]

\* the factory and the concrete subclass: the working polynomial is the
\* exact one coerced to the base ring; _exact_modulus and _implementation
\* are stored next to what __init__ stores
extension(base, exact, prec, print_mode, names, impl) ==
    __init__(change_ring(exact, base), prec, print_mode, names)
        @@ [exact_modulus |-> exact, implementation |-> impl]

(***************************** queries *************************************)
\* mutation of degree: the number of coefficients instead of the degree
degree_offbyone(self) == Len(self.given_poly.coeffs)

degree(self) == poly_degree(self.given_poly)

defining_polynomial(self, exact) ==
    IF exact THEN self.exact_modulus ELSE self.given_poly

modulus(self, exact) == defining_polynomial(self, exact)

ground_ring(self) == self.given_poly.base_ring

polynomial_ring(self) == [kind |-> "polyring", base_ring |-> self.given_poly.base_ring]

\* is_field() and _prec_type() are fixed by the concrete class, which the
\* factory picks after the p-adic base ring at the bottom of the tower
RECURSIVE is_field(_)
is_field(R) == IF IsBase(R) THEN R.field ELSE is_field(ground_ring(R))

RECURSIVE _prec_type(_)
_prec_type(R) == IF IsBase(R) THEN R.type ELSE _prec_type(ground_ring(R))

\* the number of extensions stacked on the p-adic base ring
RECURSIVE TowerHeight(_)
TowerHeight(R) == IF IsBase(R) THEN 0 ELSE 1 + TowerHeight(R.base)

\* mutation of ground_ring_of_tower: ground_ring() whatever it is
ground_ring_of_tower_norec(self) == [ring |-> ground_ring(self), depth |-> 1]

\* ground_ring_of_tower(): the ring returned and the number of calls made
RECURSIVE ground_ring_of_tower(_)
ground_ring_of_tower(self) ==
    IF IsBase(ground_ring(self))
    THEN [ring |-> ground_ring(self), depth |-> 1]
    ELSE LET r == ground_ring_of_tower(ground_ring(self))
         IN  [ring |-> r.ring, depth |-> r.depth + 1]

\* exact_field(): base_ring().exact_field().extension(_exact_modulus, name)
RECURSIVE exact_field(_)
exact_field(R) ==
    IF IsBase(R) THEN [kind |-> "QQ"]
    ELSE [kind |-> "numberfield", base |-> exact_field(base_ring(R)),
          modulus |-> R.exact_modulus, name |-> variable_name(R)]

\* polynomial == polynomial, once the coefficient rings are known equal
poly_eq(f, g) == f.coeffs = g.coeffs

(***************************** equality ************************************)
RECURSIVE __eq__(_, _)
RECURSIVE ring_eq(_, _)
\* == on two ground rings: this class's __eq__ when the left one is an
\* extension, the base rings' own equality otherwise
ring_eq(A, B) ==
    IF IsExt(A) THEN __eq__(A, B)
    ELSE IsBase(B) /\ A = B

\* mutation of __eq__: precision caps compared with <=
eq_prec_le(self, other) ==
    IF ~IsExt(other) THEN FALSE
    ELSE /\ ring_eq(ground_ring(self), ground_ring(other))
         /\ poly_eq(defining_polynomial(self, FALSE), defining_polynomial(other, FALSE))
         /\ precision_cap(self) <= precision_cap(other)
         /\ richcmp_modes(self.printer, other.printer)

__eq__(self, other) ==
    IF ~IsExt(other) THEN FALSE
    ELSE /\ ring_eq(ground_ring(self), ground_ring(other))
         /\ poly_eq(defining_polynomial(self, FALSE), defining_polynomial(other, FALSE))
         /\ precision_cap(self) = precision_cap(other)
         /\ richcmp_modes(self.printer, other.printer)

__ne__(self, other) == ~__eq__(self, other)

(********************** fraction field, integer ring ***********************)
RECURSIVE fraction_field(_, _)
RECURSIVE integer_ring(_, _)

\* self.change(field=..., **kwds): the factory is asked for the extension of
\* the field-flagged (or ring-flagged) base by the same exact polynomial,
\* with the same precision cap, names and implementation and with the
\* print options of self overridden by kwds
change(self, field, kwds) ==
    LET R == base_ring(self)
        newbase == IF IsBase(R) THEN [R EXCEPT !.field = field]
                   ELSE IF field THEN fraction_field(R, NonePM)
                   ELSE integer_ring(R, NonePM)
    IN  extension(newbase, self.exact_modulus, precision_cap(self),
                  kwds @@ printer_dict(self),
                  <<variable_name(self), variable_name(self),
                    self.printer.unram_name, self.printer.ram_name>>,
                  self.implementation)

\* mutation of fraction_field: a field returns itself even with an override
fraction_field_anyfield(self, print_mode) ==
    IF is_field(self)
    THEN self
    ELSE IF print_mode.none
    THEN change(self, TRUE, EmptyDict)
    ELSE change(self, TRUE, print_mode.dict)

fraction_field(self, print_mode) ==
    IF is_field(self) /\ print_mode.none
    THEN self
    ELSE IF print_mode.none
    THEN change(self, TRUE, EmptyDict)
    ELSE change(self, TRUE, print_mode.dict)

\* mutation of integer_ring: the override options are dropped
integer_ring_dropkw(self, print_mode) ==
    IF ~is_field(self) /\ print_mode.none
    THEN self
    ELSE change(self, FALSE, EmptyDict)

integer_ring(self, print_mode) ==
    IF ~is_field(self) /\ print_mode.none
    THEN self
    ELSE IF print_mode.none
    THEN change(self, FALSE, EmptyDict)
    ELSE change(self, FALSE, print_mode.dict)

(***************************** construction() ******************************)
\* mutation of construction: the working polynomial handed to the functor
construction_given(self) ==
    [functor |-> [polys |-> <<defining_polynomial(self, FALSE)>>,
                  names |-> <<variable_name(self)>>,
                  prec |-> precision_cap(self),
                  print_mode |-> printer_dict(self),
                  implementation |-> self.implementation],
     base |-> base_ring(self)]

construction(self) ==
    [functor |-> [polys |-> <<defining_polynomial(self, TRUE)>>,
                  names |-> <<variable_name(self)>>,
                  prec |-> precision_cap(self),
                  print_mode |-> printer_dict(self),
                  implementation |-> self.implementation],
     base |-> base_ring(self)]

\* AlgebraicExtensionFunctor applied to a ring R: R.extension(polys[0],
\* names[0], prec=..., print_mode=..., implementation=...)
apply_functor(F, R) ==
    extension(R, F.polys[1], F.prec, F.print_mode,
              <<F.names[1], F.names[1], F.print_mode.unram_name,
                F.print_mode.ram_name>>,
              F.implementation)

(***************************** coercion ************************************)
\* the results of _coerce_map_from_
RetNone == [tag |-> "None"]

RetTrue == [tag |-> "True"]

RetRaise(e) == [tag |-> "raise", error |-> e]

\* coerce_map(R, self) for the class imported under that name
coerce_map(cls, R, self) == [tag |-> "map", class |-> cls, domain |-> R, codomain |-> self]

\* mutation of _coerce_map_from_: == in place of the identity test
coerce_map_from_eq(self, R) ==
    IF IsExt(R) /\ __eq__(fraction_field(R, NonePM), self)
    THEN IF self.implementation = "NTL" THEN RetTrue
         ELSE IF _prec_type(R) = "capped-abs"
         THEN coerce_map("pAdicCoercion_CA_frac_field", R, self)
         ELSE IF _prec_type(R) = "capped-rel"
         THEN coerce_map("pAdicCoercion_CR_frac_field", R, self)
         ELSE IF _prec_type(R) = "floating-point"
         THEN coerce_map("pAdicCoercion_FP_frac_field", R, self)
         ELSE RetRaise("UnboundLocalError")
    ELSE RetNone

\* with no branch taken, the name coerce_map is unbound at the return
_coerce_map_from_(self, R) ==
    IF IsExt(R) /\ fraction_field(R, NonePM) = self
    THEN IF self.implementation = "NTL" THEN RetTrue
         ELSE IF _prec_type(R) = "capped-abs"
         THEN coerce_map("pAdicCoercion_CA_frac_field", R, self)
         ELSE IF _prec_type(R) = "capped-rel"
         THEN coerce_map("pAdicCoercion_CR_frac_field", R, self)
         ELSE IF _prec_type(R) = "floating-point"
         THEN coerce_map("pAdicCoercion_FP_frac_field", R, self)
         ELSE RetRaise("UnboundLocalError")
    ELSE RetNone

(***************************** random_element ******************************)
\* the values ring.random_element() can return: a draw of the base ring, or
\* for an extension of degree n the sum of n draws of its ground ring times
\* the powers gen^0 .. gen^(n-1), kept as the list of the n draws
RECURSIVE random_elements(_)
random_elements(R) ==
    IF IsBase(R) THEN RandomDraws
    ELSE [1..poly_degree(modulus(R, FALSE)) -> random_elements(ground_ring(R))]

(***************************** the rings built *****************************)
\* the print options the factory hands to __init__: the print mode and
\* whether negative digits are avoided
PrintModes == {[mode |-> m, pos |-> b] : m \in Modes, b \in BOOLEAN}

\* the extensions of the p-adic base rings
Ext1 ==
    { extension(base, exact, prec, pm, names, impl) :
        base \in BaseRings, exact \in ExactPolys, prec \in 1..MaxPrec,
        pm \in PrintModes, names \in NameTuples, impl \in Implementations }

\* the extensions a relative extension is built over: those defined by
\* x^2 + p with precision cap 1 and the default options
DefaultOptions(R) ==
    /\ R.exact_modulus.coeffs = <<Prime, 0, 1>>
    /\ precision_cap(R) = 1
    /\ R.printer.mode = "series"
    /\ R.printer.pos
    /\ R.implementation = "FLINT"

\* Towers(h): the extensions of height exactly h; above height 1 each is
\* built over a tower of height h - 1, with the options of its base
RECURSIVE Towers(_)
Towers(h) ==
    IF h = 1 THEN Ext1
    ELSE { extension(base, exact, precision_cap(base),
                     [mode |-> base.printer.mode, pos |-> base.printer.pos],
                     <<variable_name(base), variable_name(base),
                       base.printer.unram_name, base.printer.ram_name>>,
                     base.implementation) :
             base \in {R \in Towers(h - 1) : DefaultOptions(R)},
             exact \in ExactPolys }

AllRings == UNION {Towers(h) : h \in 1..MaxHeight}

\* the values handed to __eq__, __ne__ and _coerce_map_from_
Operands == AllRings \cup BaseRings \cup {NotARing}

(***************************** the state machine ***************************)
NoArg == [kind |-> "none"]

\* the record of a call: the method, its receiver, its arguments, its result
Call(op, self, other, exact, pm, ret) ==
    [op |-> op, self |-> self, other |-> other, exact |-> exact, pm |-> pm, ret |-> ret]

Val(tag, v) == [tag |-> tag, val |-> v]

\* no call is in progress and no result is held
Idle == Call("idle", NoArg, NoArg, FALSE, NonePM, Val("none", 0))

\* a method call on the ring: the object afterwards and the record of the
\* call for the caller
Method(op, after, other, exact, pm, ret) ==
    /\ ring' = after
    /\ last' = Call(op, ring, other, exact, pm, ret)

Degree == Method("degree", ring, NoArg, FALSE, NonePM, Val("int", degree(ring)))

DefiningPolynomial(exact) ==
    Method("defining_polynomial", ring, NoArg, exact, NonePM,
           Val("poly", defining_polynomial(ring, exact)))

Modulus(exact) ==
    Method("modulus", ring, NoArg, exact, NonePM, Val("poly", modulus(ring, exact)))

GroundRing ==
    Method("ground_ring", ring, NoArg, FALSE, NonePM, Val("ring", ground_ring(ring)))

GroundRingOfTower ==
    Method("ground_ring_of_tower", ring, NoArg, FALSE, NonePM,
           Val("tower", ground_ring_of_tower(ring)))

PolynomialRing ==
    Method("polynomial_ring", ring, NoArg, FALSE, NonePM,
           Val("polyring", polynomial_ring(ring)))

ExactField ==
    Method("exact_field", ring, NoArg, FALSE, NonePM, Val("field", exact_field(ring)))

Construction ==
    Method("construction", ring, NoArg, FALSE, NonePM,
           Val("construction", construction(ring)))

DrawRandomElement ==
    \E x \in random_elements(ring) :
        Method("random_element", ring, NoArg, FALSE, NonePM, Val("element", x))

Eq(other) ==
    Method("__eq__", ring, other, FALSE, NonePM, Val("bool", __eq__(ring, other)))

Ne(other) ==
    Method("__ne__", ring, other, FALSE, NonePM, Val("bool", __ne__(ring, other)))

\* mutation of FractionField: self is turned into its fraction field
FractionField_inplace(print_mode) ==
    Method("fraction_field", fraction_field(ring, print_mode), NoArg, FALSE, print_mode,
           Val("ring", fraction_field(ring, print_mode)))

\* fraction_field and integer_ring hand back self or a ring of the factory
\* and leave self as it is
FractionField(print_mode) ==
    Method("fraction_field", ring, NoArg, FALSE, print_mode,
           Val("ring", fraction_field(ring, print_mode)))

IntegerRing(print_mode) ==
    Method("integer_ring", ring, NoArg, FALSE, print_mode,
           Val("ring", integer_ring(ring, print_mode)))

CoerceMapFrom(R) ==
    Method("_coerce_map_from_", ring, R, FALSE, NonePM, _coerce_map_from_(ring, R))

\* the caller takes the result of the call
Return ==
    /\ last # Idle
    /\ last' = Idle
    /\ UNCHANGED ring

\* the state after construction: a ring the factory has built
Init ==
    /\ ring \in AllRings
    /\ last = Idle

\* a call is made when the caller holds no result, or the caller takes
\* the result of the call made
Next ==
    \/ last = Idle /\ Degree
    \/ last = Idle /\ \E exact \in BOOLEAN : DefiningPolynomial(exact)
    \/ last = Idle /\ \E exact \in BOOLEAN : Modulus(exact)
    \/ last = Idle /\ GroundRing
    \/ last = Idle /\ GroundRingOfTower
    \/ last = Idle /\ PolynomialRing
    \/ last = Idle /\ ExactField
    \/ last = Idle /\ Construction
    \/ last = Idle /\ DrawRandomElement
    \/ last = Idle /\ \E other \in Operands : Eq(other)
    \/ last = Idle /\ \E other \in Operands : Ne(other)
    \/ last = Idle /\ \E pm \in Overrides : FractionField(pm)
    \/ last = Idle /\ \E pm \in Overrides : IntegerRing(pm)
    \/ last = Idle /\ \E R \in Operands : CoerceMapFrom(R)
    \/ Return

Spec == Init /\ [][Next]_vars

(***************************** claims **************************************)
EqCalled == last.op = "__eq__"

\* the four-way comparison with the polynomial read by the accessor pick
FourWay(a, b, pick(_)) ==
    /\ ring_eq(ground_ring(a), ground_ring(b))
    /\ pick(a).coeffs = pick(b).coeffs
    /\ precision_cap(a) = precision_cap(b)
    /\ richcmp_modes(a.printer, b.printer)

ExactOf(a) == defining_polynomial(a, TRUE)

\* b is a with nothing but the print mode changed
OnlyModeDiffers(a, b) ==
    /\ a.printer.mode # b.printer.mode
    /\ b = [a EXCEPT !.printer.mode = b.printer.mode]

\* C1: d.__eq__(o) is true exactly when o is an extension and the
\* ground rings, the EXACT moduli, the precision caps and the print modes are
\* equal; descriptors that differ only in print mode are unequal.
C1_EqComparesExactModulus ==
    EqCalled =>
        /\ last.ret.val <=>
             (IsExt(last.other) /\ FourWay(last.self, last.other, ExactOf))
        /\ (IsExt(last.other) /\ OnlyModeDiffers(last.self, last.other))
             => ~last.ret.val

\* C5: equality is reflexive and symmetric: a == a holds, and a == b holds
\* exactly when b == a holds, for extensions a and b.
C5_EqReflexiveSymmetric ==
    (EqCalled /\ IsExt(last.other)) =>
        /\ (last.other = last.self => last.ret.val)
        /\ last.ret.val <=> __eq__(last.other, last.self)

\* two different rings that compare equal
C5_Witness ==
    /\ EqCalled
    /\ IsExt(last.other)
    /\ last.other # last.self
    /\ last.ret.val

\* C2: construction() returns (functor, base) with base the base ring of d
\* and the functor carrying the exact modulus as a one-element list, the
\* variable name, the precision cap, the print-mode configuration and the
\* implementation tag; the functor applied to base is a ring equal to d.
C2_ConstructionRebuilds ==
    last.op = "construction" =>
        LET d == last.self
            F == last.ret.val.functor
            base == last.ret.val.base
        IN  /\ base = base_ring(d)
            /\ F.polys = <<d.exact_modulus>>
            /\ F.names = <<variable_name(d)>>
            /\ F.prec = precision_cap(d)
            /\ F.print_mode = d.printer
            /\ F.implementation = d.implementation
            /\ __eq__(apply_functor(F, base), d)

\* construction() was called on a ring printing in val-unit mode whose
\* working polynomial differs from its exact modulus
C2_Witness ==
    /\ last.op = "construction"
    /\ last.self.printer.mode = "val-unit"
    /\ last.self.given_poly.coeffs # last.self.exact_modulus.coeffs
    /\ last.ret.val.functor.polys[1] = last.self.exact_modulus

CoerceCalled == last.op = "_coerce_map_from_"

\* R is an extension whose fraction field is the very object d
FractionFieldIs(R, d) == IsExt(R) /\ fraction_field(R, NonePM) = d

\* the coercion-map class of each recognized precision discipline
MapClass(type) ==
    CASE type = "capped-abs" -> "pAdicCoercion_CA_frac_field"
      [] type = "capped-rel" -> "pAdicCoercion_CR_frac_field"
      [] type = "floating-point" -> "pAdicCoercion_FP_frac_field"

Recognized == {"capped-abs", "capped-rel", "floating-point"}

\* C3: _coerce_map_from_(R) accepts only when R is an extension whose
\* fraction_field() is self and yields no coercion for every other R; when
\* it is and the implementation is 'NTL' the result is True whatever the
\* precision discipline of R; otherwise, for a capped-abs, capped-rel or
\* floating-point R, it is the coercion map selected by that discipline.
C3_CoercionPolicy ==
    CoerceCalled =>
        LET d == last.self
            R == last.other
        IN  /\ last.ret.tag \in {"True", "map"} => FractionFieldIs(R, d)
            /\ ~FractionFieldIs(R, d) => last.ret = RetNone
            /\ (FractionFieldIs(R, d) /\ d.implementation = "NTL")
                 => last.ret = RetTrue
            /\ (FractionFieldIs(R, d) /\ d.implementation # "NTL"
                  /\ _prec_type(R) \in Recognized)
                 => last.ret = [tag |-> "map", class |-> MapClass(_prec_type(R)),
                                domain |-> R, codomain |-> d]

\* a capped-abs ring was coerced into its fraction field, a different object
C3_Witness ==
    /\ CoerceCalled
    /\ last.other # last.self
    /\ last.ret.tag = "map"
    /\ last.ret.class = "pAdicCoercion_CA_frac_field"

\* C4: with R an extension whose fraction field is self, self not on the
\* generic backend and R of a precision discipline other than capped-abs,
\* capped-rel and floating-point, _coerce_map_from_ yields no coercion and
\* raises nothing.
C4_UnrecognizedYieldsNone ==
    (/\ CoerceCalled
     /\ FractionFieldIs(last.other, last.self)
     /\ last.self.implementation # "NTL"
     /\ _prec_type(last.other) \notin Recognized)
        => last.ret = RetNone

\* what d and r share when r is d with the field flag set to field
\* and the print options to options
Changed(d, r, field, options) ==
    /\ IsExt(r)
    /\ is_field(r) = field
    /\ r.printer = options
    /\ r.exact_modulus = d.exact_modulus
    /\ r.given_poly.coeffs = d.given_poly.coeffs
    /\ precision_cap(r) = precision_cap(d)
    /\ variable_name(r) = variable_name(d)
    /\ r.implementation = d.implementation
    /\ _prec_type(r) = _prec_type(d)
    /\ TowerHeight(r) = TowerHeight(d)

FFCalled == last.op = "fraction_field"

\* the print options of d with the override pm applied: an option the
\* override names takes the override's value, every other one keeps d's
Overridden(d, pm) ==
    [k \in DOMAIN d.printer \cup DOMAIN pm.dict |->
        IF k \in DOMAIN pm.dict THEN pm.dict[k] ELSE d.printer[k]]

\* what C6 says of a call without override
C6_NoOverride ==
    (FFCalled /\ last.pm.none) =>
        LET d == last.self
            r == last.ret.val
        IN  /\ fraction_field(r, NonePM) = r
            /\ is_field(d) => r = d
            /\ ~is_field(d) => Changed(d, r, TRUE, d.printer)

\* C6 as stated: fraction_field() without override is idempotent, a field
\* returns itself and a non-field returns a field-flagged ring that
\* otherwise matches it; with an override given, even a field does not
\* return itself but a changed ring with the override applied.
C6_OverrideNeverReturnsSelf ==
    /\ C6_NoOverride
    /\ (FFCalled /\ ~last.pm.none) =>
         /\ last.ret.val # last.self
         /\ Changed(last.self, last.ret.val, TRUE, Overridden(last.self, last.pm))

\* C6 amended: as stated without override; with an override given the
\* result is the field-flagged ring with the override applied, which is
\* self exactly when self is a field and the override leaves its print
\* options as they are.
C6_FractionField ==
    /\ C6_NoOverride
    /\ (FFCalled /\ ~last.pm.none) =>
         /\ Changed(last.self, last.ret.val, TRUE, Overridden(last.self, last.pm))
         /\ last.ret.val = last.self
              <=> (is_field(last.self)
                     /\ last.self.printer = Overridden(last.self, last.pm))

\* a field was asked for its fraction field with an override that names
\* an option with the value it already has, and returned itself
C6_Witness ==
    /\ FFCalled
    /\ ~last.pm.none
    /\ DOMAIN last.pm.dict # {}
    /\ is_field(last.self)
    /\ last.ret.val = last.self

\* C7: integer_ring() on a non-field without override returns that same
\* ring; in every other case it returns a non-field-flagged ring with the
\* override options applied.
C7_IntegerRing ==
    last.op = "integer_ring" =>
        LET d == last.self
            r == last.ret.val
        IN  IF ~is_field(d) /\ last.pm.none
            THEN r = d
            ELSE Changed(d, r, FALSE, Overridden(d, last.pm))

\* a field was asked for its integer ring with an override changing the
\* option pos
C7_Witness ==
    /\ last.op = "integer_ring"
    /\ is_field(last.self)
    /\ ~last.pm.none
    /\ last.ret.val.printer.pos # last.self.printer.pos
    /\ last.ret.val.printer.mode = last.self.printer.mode
    /\ ~is_field(last.ret.val)

\* C8: ground_ring_of_tower() returns a p-adic base ring: ground_ring()
\* when that is a base ring, else ground_ring_of_tower() of ground_ring();
\* the depth of the recursion is the height of the tower.
C8_GroundRingOfTower ==
    last.op = "ground_ring_of_tower" =>
        LET d == last.self
            r == last.ret.val
        IN  /\ IsBase(r.ring)
            /\ r.depth = TowerHeight(d)
            /\ IsBase(ground_ring(d)) => r.ring = ground_ring(d)
            /\ ~IsBase(ground_ring(d))
                 => r.ring = ground_ring_of_tower(ground_ring(d)).ring

\* the call was made on an extension of an extension
C8_Witness ==
    /\ last.op = "ground_ring_of_tower"
    /\ IsExt(ground_ring(last.self))
    /\ last.ret.val.depth = 2

\* C9: degree() is the degree of the polynomial given at construction, the
\* exact and the working defining polynomial have the same degree, and
\* modulus(exact) is defining_polynomial(exact) for both values of exact.
C9_Degree ==
    /\ last.op = "degree" =>
         /\ last.ret.val = Len(last.self.exact_modulus.coeffs) - 1
         /\ last.ret.val = poly_degree(last.self.given_poly)
    /\ last.op = "defining_polynomial" =>
         poly_degree(last.ret.val) = poly_degree(defining_polynomial(last.self, ~last.exact))
    /\ last.op = "modulus" =>
         /\ last.ret.val = defining_polynomial(last.self, last.exact)
         /\ last.ret.val = IF last.exact THEN last.self.exact_modulus
                           ELSE last.self.given_poly

\* degree() was called on an extension given by a polynomial of degree 2
\* whose coefficients were truncated
C9_Witness ==
    /\ last.op = "degree"
    /\ last.ret.val = 2
    /\ last.self.given_poly.coeffs # last.self.exact_modulus.coeffs

\* C10: no method call changes the attributes of the ring: the working
\* polynomial, the exact modulus, the precision cap, the print mode, the
\* base ring and the implementation stay as constructed, and so does
\* degree(); fraction_field and integer_ring leave self as it was.
C10_Immutable ==
    [][/\ ring' = ring
       /\ degree(ring') = degree(ring)]_vars

\* fraction_field returned another ring and self is as it was before
C10_Witness ==
    /\ FFCalled
    /\ last.ret.val # last.self
    /\ ring = last.self

====
